---- MODULE Spec2Model ----
(***************************************************************************)
(* SpotifySearchTool (src/my_agent/spotify_tool.py): the OAuth refresh /   *)
(* cache flow, the two authenticated GETs, the playlist ranking heuristic  *)
(* and the search_by_mood orchestration.                                   *)
(*                                                                         *)
(* Python values are represented as follows:                               *)
(*   str            a sequence of one-character strings                    *)
(*   None (a str?)  the sentinel None, a sequence that is no str           *)
(*   dict           a record; an absent key is an absent field             *)
(*   null (a dict?) the record Null                                        *)
(*   list           a sequence                                             *)
(*   time.time()    an integer number of seconds (the variable clock)      *)
(* The token endpoint and the API answer with structured (key-value)       *)
(* bodies; which answer they give is the environment's choice.             *)
(***************************************************************************)
EXTENDS Integers, Sequences, FiniteSets, TLC

VARIABLES self, clock, last

vars == <<self, clock, last>>

(***************************************************************************)
(* Python built-ins                                                        *)
(***************************************************************************)

\* None where a str is expected: a sequence that is no sequence of characters.
None == <<"None">>

\* JSON null where an object is expected.
Null == [py_none |-> TRUE]

\* bool(x) of a str-or-None.
Truthy(x) == x # None /\ x # <<>>

\* bool(x) of a list.
TruthyList(x) == Len(x) > 0

\* bool(x) of a dict-or-null (the dicts of the model are never empty).
TruthyObj(x) == x # Null

Min(a, b) == IF a <= b THEN a ELSE b

Max(a, b) == IF a >= b THEN a ELSE b

\* {}: the dict without keys.
EmptyDict == <<>>

\* F of the value of x: x is evaluated once, as an assignment does.
Bind(x, F(_)) == CHOOSE y \in {F(v) : v \in {x}} : TRUE

\* d.get(key, default) of a dict d.
Get(d, key, default) == IF key \in DOMAIN d THEN d[key] ELSE default

Whitespace == {" ", "\t", "\n"}

UpperAlphabet == <<"A", "B", "C", "D", "E", "F", "G", "H", "I", "J", "K", "L", "M", "N", "O", "P", "Q", "R", "S", "T", "U", "V", "W", "X", "Y", "Z">>

LowerAlphabet == <<"a", "b", "c", "d", "e", "f", "g", "h", "i", "j", "k", "l", "m", "n", "o", "p", "q", "r", "s", "t", "u", "v", "w", "x", "y", "z">>

\* str.lower() of one character.
LowerChar(c) ==
    IF \E i \in DOMAIN UpperAlphabet : UpperAlphabet[i] = c
    THEN LowerAlphabet[CHOOSE i \in DOMAIN UpperAlphabet : UpperAlphabet[i] = c]
    ELSE c

\* str.lower()
Lower(s) == [i \in DOMAIN s |-> LowerChar(s[i])]

RECURSIVE LStrip(_)
LStrip(s) ==
    IF s # <<>> /\ Head(s) \in Whitespace THEN LStrip(Tail(s)) ELSE s

RECURSIVE RStrip(_)
RStrip(s) ==
    IF s # <<>> /\ s[Len(s)] \in Whitespace
    THEN RStrip(SubSeq(s, 1, Len(s) - 1))
    ELSE s

\* str.strip()
Strip(s) == RStrip(LStrip(s))

\* a in b, for two strs
Contains(b, a) ==
    \E i \in 0..(Len(b) - Len(a)) : SubSeq(b, i + 1, i + Len(a)) = a

Digits == <<"0", "1", "2", "3", "4", "5", "6", "7", "8", "9">>

IsDigit(c) == \E i \in DOMAIN Digits : Digits[i] = c

DigitValue(c) == (CHOOSE i \in DOMAIN Digits : Digits[i] = c) - 1

RECURSIVE DigitsValue(_)
DigitsValue(s) ==
    IF s = <<>> THEN 0
    ELSE DigitsValue(SubSeq(s, 1, Len(s) - 1)) * 10 + DigitValue(s[Len(s)])

Signs == {"+", "-"}

\* int(s): surrounding whitespace is dropped, one sign is allowed, the rest
\* must be decimal digits; anything else raises ValueError (ok = FALSE).
IntOfStr(s) ==
    LET t == Strip(s)
        signed == t # <<>> /\ Head(t) \in Signs
        d == IF signed THEN Tail(t) ELSE t
    IN  IF d # <<>> /\ \A i \in DOMAIN d : IsDigit(d[i])
        THEN [ok |-> TRUE,
              value |-> IF signed /\ Head(t) = "-" THEN 0 - DigitsValue(d)
                        ELSE DigitsValue(d)]
        ELSE [ok |-> FALSE, value |-> 0]

RECURSIVE NatToStr(_)
NatToStr(n) ==
    IF n < 10 THEN <<Digits[n + 1]>>
    ELSE NatToStr(n \div 10) \o <<Digits[(n % 10) + 1]>>

\* str(n), as an f-string renders an int
IntToStr(n) == IF n < 0 THEN <<"-">> \o NatToStr(0 - n) ELSE NatToStr(n)

(***************************************************************************)
(* Constants of spotify_tool.py                                            *)
(***************************************************************************)

SPOTIFY_TOKEN_URL == "https://accounts.spotify.com/api/token"

SPOTIFY_SEARCH_URL == "https://api.spotify.com/v1/search"

SPOTIFY_PLAYLIST_TRACKS_URL == "https://api.spotify.com/v1/playlists/{playlist_id}/tracks"

\* token_response.get("expires_in", 3600)
DEFAULT_EXPIRES_IN == 3600

\* params = {"limit": 50}
TRACKS_PAGE_LIMIT == 50

\* timeout=10 of every request
REQUEST_TIMEOUT == 10

(***************************************************************************)
(* The network.  A method call runs in a world w = [clock, http]: the time *)
(* and the HTTP exchanges of the call so far, in order.  env is the        *)
(* sequence of answers the servers give to the call's requests, in the     *)
(* order the requests are sent; a request takes the answer's latency.      *)
(***************************************************************************)

\* What is read when env holds no answer for a request.
NoResponse == [status_code |-> 0, headers |-> EmptyDict, json |-> EmptyDict, latency |-> 0]

Answer(env, k) == IF k \in DOMAIN env THEN env[k] ELSE NoResponse

Url(template, playlist_id) == [template |-> template, playlist_id |-> playlist_id]

Request(method, url, auth, body) ==
    [method |-> method, url |-> url, auth |-> auth, body |-> body, timeout |-> REQUEST_TIMEOUT]

\* requests.post / requests.get: the world after the exchange.
Send(w, request, env) ==
    LET r == Answer(env, Len(w.http) + 1)
    IN  [clock |-> w.clock + r.latency,
         http |-> Append(w.http, [request |-> request, response |-> r])]

\* The response of the exchange just made.
Response(w) == w.http[Len(w.http)].response

(***************************************************************************)
(* Results of a method call: the exception raised ("none" when it          *)
(* returned), the exception's message, the value returned, the object and  *)
(* the world after the call.                                               *)
(***************************************************************************)

NoValue == <<>>

Returned(value, s, w) ==
    [exc |-> "none", msg |-> <<>>, ret |-> value, self |-> s, clock |-> w.clock, http |-> w.http]

\* raise exc(msg): nothing is returned.
Raised(exc, msg, s, w) ==
    [exc |-> exc, msg |-> msg, ret |-> NoValue, self |-> s, clock |-> w.clock, http |-> w.http]

World(r) == [clock |-> r.clock, http |-> r.http]

(***************************************************************************)
(* SpotifySearchTool.__init__                                              *)
(***************************************************************************)

NewTool(client_id, client_secret, refresh_token, token_cache_seconds) ==
    [client_id |-> client_id,
     client_secret |-> client_secret,
     refresh_token |-> refresh_token,
     _access_token |-> None,
     _token_expires_at |-> 0,
     token_cache_seconds |-> token_cache_seconds]

(***************************************************************************)
(* SpotifySearchTool._refresh_access_token                                 *)
(***************************************************************************)

\* A check that forgets the refresh token.
CredentialsPresentButRefreshToken(s) ==
    Truthy(s.client_id) /\ Truthy(s.client_secret)

\* self.client_id and self.client_secret and self.refresh_token
CredentialsPresent(s) ==
    Truthy(s.client_id) /\ Truthy(s.client_secret) /\ Truthy(s.refresh_token)

\* A check that takes the token for valid at its expiry.
TokenIsFreshAtExpiry(s, now) ==
    Truthy(s._access_token) /\ now <= s._token_expires_at

\* self._access_token and now < self._token_expires_at
TokenIsFresh(s, now) ==
    Truthy(s._access_token) /\ now < s._token_expires_at

\* An expiry that trusts the server's lifetime alone.
NewExpiryUncapped(now, expires_in, token_cache_seconds) ==
    now + expires_in

\* now + min(expires_in, self.token_cache_seconds)
NewExpiry(now, expires_in, token_cache_seconds) ==
    now + Min(expires_in, token_cache_seconds)

\* self._access_token = access_token; self._token_expires_at = ...
CacheToken(s, access_token, expires_at) ==
    [s EXCEPT !._access_token = access_token, !._token_expires_at = expires_at]

\* A failure that drops the cached token.
RefreshFailedDropsToken(s, w) ==
    Raised("SpotifyAuthError", <<>>, [s EXCEPT !._access_token = None], w)

\* raise SpotifyAuthError(...): the object is left as it is.
RefreshFailed(s, w) ==
    Raised("SpotifyAuthError", <<>>, s, w)

TokenRequest(s) ==
    Request("POST", Url(SPOTIFY_TOKEN_URL, None),
            [scheme |-> "Basic", credentials |-> <<s.client_id, s.client_secret>>],
            [grant_type |-> "refresh_token", refresh_token |-> s.refresh_token])

_refresh_access_token(s, w, env) ==
    IF ~CredentialsPresent(s)
    THEN RefreshFailed(s, w)
    ELSE LET now == w.clock
         IN  IF TokenIsFresh(s, now)
             THEN Returned(s._access_token, s, w)
             ELSE Bind(Send(w, TokenRequest(s), env), LAMBDA w2 :
                  LET r == Response(w2)
                      access_token == Get(r.json, "access_token", None)
                      expires_in == Get(r.json, "expires_in", DEFAULT_EXPIRES_IN)
                  IN  IF r.status_code # 200
                      THEN RefreshFailed(s, w2)
                      ELSE IF ~Truthy(access_token)
                      THEN RefreshFailed(s, w2)
                      ELSE Returned(access_token,
                                    CacheToken(s, access_token,
                                               NewExpiry(now, expires_in,
                                                         s.token_cache_seconds)),
                                    w2))

(***************************************************************************)
(* SpotifySearchTool._call_spotify                                         *)
(***************************************************************************)

RateLimitedMessage(retry_after) ==
    <<"R", "a", "t", "e", " ", "l", "i", "m", "i", "t", "e", "d", " ", "b", "y", " ", "S", "p", "o", "t", "i", "f", "y", ".", " ", "R", "e", "t", "r", "y", " ", "a", "f", "t", "e", "r", " ">>
    \o IntToStr(retry_after) \o <<" ", "s", "e", "c", "o", "n", "d", "s", ".">>

\* r.status_code >= 400
IsErrorStatus(status_code) == status_code >= 400

_call_spotify(s, w, url, params, env) ==
    Bind(_refresh_access_token(s, w, env), LAMBDA tok :
    IF tok.exc # "none"
    THEN tok
    ELSE Bind(Send(World(tok),
                   Request("GET", url,
                           [scheme |-> "Bearer", credentials |-> <<tok.ret>>],
                           params),
                   env), LAMBDA w2 :
         LET r == Response(w2)
         IN  IF r.status_code = 429
             THEN LET retry_after == IntOfStr(Get(r.headers, "Retry-After", <<"1">>))
                  IN  IF ~retry_after.ok
                      THEN Raised("ValueError", <<>>, tok.self, w2)
                      ELSE Raised("SpotifySearchError",
                                  RateLimitedMessage(retry_after.value),
                                  tok.self, w2)
             ELSE IF IsErrorStatus(r.status_code)
             THEN Raised("SpotifySearchError", <<>>, tok.self, w2)
             ELSE Returned(r.json, tok.self, w2)))

(***************************************************************************)
(* SpotifySearchTool.search_playlists                                      *)
(***************************************************************************)

\* A check that forgets to strip the mood.
MoodIsEmptyUnstripped(mood) == ~Truthy(mood)

\* not mood or not mood.strip()
MoodIsEmpty(mood) == ~Truthy(mood) \/ ~Truthy(Strip(mood))

\* f"{mood} playlist"
SearchQuery(mood) == mood \o <<" ", "p", "l", "a", "y", "l", "i", "s", "t">>

\* [p for p in playlists if p is not None]
IsNotNone(p) == p # Null

search_playlists(s, w, mood, limit, env) ==
    IF MoodIsEmpty(mood)
    THEN Raised("ValueError", <<>>, s, w)
    ELSE LET params == [q |-> SearchQuery(mood), type |-> "playlist", limit |-> limit]
         IN  Bind(_call_spotify(s, w, Url(SPOTIFY_SEARCH_URL, None), params, env),
                  LAMBDA resp :
             IF resp.exc # "none"
             THEN resp
             ELSE LET playlists == Get(Get(resp.ret, "playlists", EmptyDict), "items", <<>>)
                  IN  Returned(SelectSeq(playlists, IsNotNone), resp.self, World(resp)))

(***************************************************************************)
(* SpotifySearchTool.get_playlist_top_tracks                               *)
(***************************************************************************)

RECURSIVE Join(_, _)
\* sep.join(strs)
Join(sep, strs) ==
    IF Len(strs) = 0 THEN <<>>
    ELSE IF Len(strs) = 1 THEN strs[1]
    ELSE strs[1] \o sep \o Join(sep, Tail(strs))

ArtistName(a) == Get(a, "name", <<>>)

\* The dict appended for one track.
SimplifiedTrack(track) ==
    LET artists == Get(track, "artists", <<>>)
    IN  [name |-> Get(track, "name", None),
         artists |-> Join(<<",", " ">>, [i \in DOMAIN artists |-> ArtistName(artists[i])]),
         preview_url |-> Get(track, "preview_url", None),
         track_url |-> Get(Get(track, "external_urls", EmptyDict), "spotify", None)]

\* len(tracks) >= top_n
EnoughTracks(tracks, top_n) == Len(tracks) >= top_n

RECURSIVE CollectTracks(_, _, _)
\* for it in items: ... with tracks the list built so far
CollectTracks(items, tracks, top_n) ==
    IF Len(items) = 0 THEN tracks
    ELSE LET track == Get(Head(items), "track", Null)
         IN  IF ~TruthyObj(track)
             THEN CollectTracks(Tail(items), tracks, top_n)
             ELSE LET tracks2 == Append(tracks, SimplifiedTrack(track))
                  IN  IF EnoughTracks(tracks2, top_n)
                      THEN tracks2
                      ELSE CollectTracks(Tail(items), tracks2, top_n)

get_playlist_top_tracks(s, w, playlist_id, top_n, env) ==
    LET url == Url(SPOTIFY_PLAYLIST_TRACKS_URL, playlist_id)
        params == [limit |-> TRACKS_PAGE_LIMIT]
    IN  Bind(_call_spotify(s, w, url, params, env), LAMBDA resp :
        IF resp.exc # "none"
        THEN resp
        ELSE Returned(CollectTracks(Get(resp.ret, "items", <<>>), <<>>, top_n),
                      resp.self, World(resp)))

(***************************************************************************)
(* SpotifySearchTool.choose_best_playlist                                  *)
(***************************************************************************)

\* score += 50
NAME_MATCH_SCORE == 50

\* score += 30
DESCRIPTION_MATCH_SCORE == 30

\* followers // 1000
FOLLOWERS_PER_POINT == 1000

\* min(..., 20)
MAX_FOLLOWER_SCORE == 20

\* The score of one playlist in the loop body.
Score(p, mood_lower) ==
    LET name == Lower(Get(p, "name", <<>>))
        desc == Lower(Get(p, "description", <<>>))
        followers == Get(Get(p, "followers", EmptyDict), "total", 0)
    IN  (IF Contains(name, mood_lower) THEN NAME_MATCH_SCORE ELSE 0)
        + (IF Contains(desc, mood_lower) THEN DESCRIPTION_MATCH_SCORE ELSE 0)
        + Min(followers \div FOLLOWERS_PER_POINT, MAX_FOLLOWER_SCORE)

\* A sort that puts x before the elements of its key.
InsertDescUnstable(sorted, x) ==
    LET k == Cardinality({i \in DOMAIN sorted : sorted[i][1] > x[1]})
    IN  SubSeq(sorted, 1, k) \o <<x>> \o SubSeq(sorted, k + 1, Len(sorted))

\* Where a stable descending sort puts x among the sorted elements before it:
\* after every element whose key is not smaller.
InsertDesc(sorted, x) ==
    LET k == Cardinality({i \in DOMAIN sorted : sorted[i][1] >= x[1]})
    IN  SubSeq(sorted, 1, k) \o <<x>> \o SubSeq(sorted, k + 1, Len(sorted))

RECURSIVE SortDescByScore(_)
\* scored.sort(key=lambda x: x[0], reverse=True): stable, equal keys keep
\* their order.
SortDescByScore(scored) ==
    IF Len(scored) = 0 THEN <<>>
    ELSE Bind(SortDescByScore(SubSeq(scored, 1, Len(scored) - 1)), LAMBDA sorted :
              InsertDesc(sorted, scored[Len(scored)]))

choose_best_playlist(playlists, mood) ==
    IF ~TruthyList(playlists)
    THEN Null
    ELSE LET mood_lower == Lower(mood)
             scored == [i \in DOMAIN playlists |->
                           <<Score(playlists[i], mood_lower), playlists[i]>>]
         IN  SortDescByScore(scored)[1][2]

(***************************************************************************)
(* SpotifySearchTool.search_by_mood                                        *)
(***************************************************************************)

PlaylistInfo(best) ==
    [id |-> Get(best, "id", None),
     name |-> Get(best, "name", None),
     description |-> Get(best, "description", None),
     external_url |-> Get(Get(best, "external_urls", EmptyDict), "spotify", None),
     owner |-> Get(Get(best, "owner", EmptyDict), "display_name", None)]

\* An orchestration that answers a failed track fetch with the playlist alone.
search_by_mood_partial(s, w, mood, playlists_limit, top_n, env) ==
    IF MoodIsEmpty(mood)
    THEN Raised("ValueError", <<>>, s, w)
    ELSE Bind(search_playlists(s, w, mood, playlists_limit, env), LAMBDA found :
         IF found.exc # "none"
         THEN found
         ELSE IF ~TruthyList(found.ret)
         THEN Raised("SpotifySearchError", <<>>, found.self, World(found))
         ELSE Bind(choose_best_playlist(found.ret, mood), LAMBDA chosen :
              LET best == IF ~TruthyObj(chosen) THEN found.ret[1] ELSE chosen
              IN  Bind(get_playlist_top_tracks(found.self, World(found),
                                               Get(best, "id", None), top_n, env),
                       LAMBDA tracks :
                  IF tracks.exc # "none"
                  THEN Returned([playlist |-> PlaylistInfo(best), tracks |-> <<>>],
                                tracks.self, World(tracks))
                  ELSE Returned([playlist |-> PlaylistInfo(best), tracks |-> tracks.ret],
                                tracks.self, World(tracks)))))

search_by_mood(s, w, mood, playlists_limit, top_n, env) ==
    IF MoodIsEmpty(mood)
    THEN Raised("ValueError", <<>>, s, w)
    ELSE Bind(search_playlists(s, w, mood, playlists_limit, env), LAMBDA found :
         IF found.exc # "none"
         THEN found
         ELSE IF ~TruthyList(found.ret)
         THEN Raised("SpotifySearchError", <<>>, found.self, World(found))
         ELSE Bind(choose_best_playlist(found.ret, mood), LAMBDA chosen :
              LET best == IF ~TruthyObj(chosen) THEN found.ret[1] ELSE chosen
              IN  Bind(get_playlist_top_tracks(found.self, World(found),
                                               Get(best, "id", None), top_n, env),
                       LAMBDA tracks :
                  IF tracks.exc # "none"
                  THEN tracks
                  ELSE Returned([playlist |-> PlaylistInfo(best), tracks |-> tracks.ret],
                                tracks.self, World(tracks)))))

(***************************************************************************)
(* The environment: the callers' arguments and the servers' answers.       *)
(***************************************************************************)

\* The largest time the model runs to.
MaxTime == 3

\* token_cache_seconds ranges over 0..MaxCacheSeconds.
MaxCacheSeconds == 2

\* Moods are None and the strs over MoodChars of at most MaxMoodLen characters.
MaxMoodLen == 2

\* top_n ranges over 0..MaxTopN.
MaxTopN == 2

\* choose_best_playlist is given at most MaxCandidates playlists.
MaxCandidates == 3

\* The sequences over the set xs of length at most n.
SeqsUpTo(xs, n) == UNION {[1..k -> xs] : k \in 0..n}

\* What a credential can be: None (unset), "" (set but empty) or a value.
CredValues == {None, <<>>, <<"i", "d">>}

MoodChars == {" ", "h"}

Moods == {None} \cup SeqsUpTo(MoodChars, MaxMoodLen)

\* The moods of search_by_mood: two empty ones and two that are not.
FewMoods == {<<>>, <<" ">>, <<"h">>, <<"H", " ">>}

TokenA == <<"t", "A">>

TokenB == <<"t", "B">>

Resp(status_code, headers, json, latency) ==
    [status_code |-> status_code, headers |-> headers, json |-> json, latency |-> latency]

\* Token endpoint: a token with a lifetime, one with none declared, one sent late,
TokenGranted ==
    {Resp(200, EmptyDict, [access_token |-> TokenA, expires_in |-> e], 0) :
        e \in 1..(MaxCacheSeconds + 1)}
    \cup {Resp(200, EmptyDict, [access_token |-> TokenB], 0),
          Resp(200, EmptyDict, [access_token |-> TokenA, expires_in |-> 1], 1),
          Resp(200, EmptyDict, [access_token |-> TokenB, expires_in |-> MaxCacheSeconds + 1], 1)}

\* a body without a token, with a null or an empty one, or another status.
TokenRefused ==
    {Resp(200, EmptyDict, [expires_in |-> 1], 0),
     Resp(200, EmptyDict, [access_token |-> None, expires_in |-> 1], 0),
     Resp(200, EmptyDict, [access_token |-> <<>>, expires_in |-> 1], 0),
     Resp(201, EmptyDict, [access_token |-> TokenA, expires_in |-> 1], 0),
     Resp(400, EmptyDict, [error |-> "invalid_grant"], 0),
     Resp(503, EmptyDict, [error |-> "unavailable"], 1)}

TokenAnswers == TokenGranted \cup TokenRefused

FewTokenAnswers ==
    {Resp(200, EmptyDict, [access_token |-> TokenA, expires_in |-> 1], 0),
     Resp(200, EmptyDict, [access_token |-> TokenB, expires_in |-> 1], 1),
     Resp(400, EmptyDict, [error |-> "invalid_grant"], 0)}

Playlist1 ==
    [id |-> <<"p", "1">>, name |-> <<"l", "o">>, description |-> <<"l", "o">>,
     owner |-> [display_name |-> <<"o">>],
     external_urls |-> [spotify |-> <<"u", "1">>]]

Playlist2 ==
    [id |-> <<"p", "2">>, name |-> <<"H", "o">>, description |-> <<"h">>,
     followers |-> [total |-> 3000]]

SearchBodies ==
    {[error |-> "none"],
     [playlists |-> [total |-> 0]],
     [playlists |-> [items |-> <<>>]],
     [playlists |-> [items |-> <<Null>>]],
     [playlists |-> [items |-> <<Playlist1>>]],
     [playlists |-> [items |-> <<Null, Playlist1, Playlist2>>]]}

\* Retry-After as a server may send it: seconds, padded seconds, seconds
\* within blanks, an HTTP date (its first word), or no such header.
RetryAfterValues == {<<"5">>, <<"0", "5">>, <<" ", "3", "0">>, <<"W", "e", "d">>}

RateLimited ==
    {Resp(429, EmptyDict, [error |-> "rate"], 0)}
    \cup {Resp(429, "Retry-After" :> v, [error |-> "rate"], 0) : v \in RetryAfterValues}

\* The statuses of an answer that is no 429, the edges of each class included.
OtherStatuses == {199, 200, 299, 300, 399, 400, 428, 430, 500}

SearchAnswers ==
    {Resp(200, EmptyDict, b, 0) : b \in SearchBodies}
    \cup {Resp(st, EmptyDict, [playlists |-> [items |-> <<Playlist1>>]], 0) :
            st \in OtherStatuses}
    \cup {Resp(200, EmptyDict, [playlists |-> [items |-> <<Playlist2>>]], 1)}
    \cup RateLimited

FewSearchAnswers ==
    {Resp(200, EmptyDict, [playlists |-> [items |-> <<>>]], 0),
     Resp(200, EmptyDict, [playlists |-> [items |-> <<Playlist1>>]], 0),
     Resp(200, EmptyDict, [playlists |-> [items |-> <<Null, Playlist1, Playlist2>>]], 1),
     Resp(300, EmptyDict, [playlists |-> [items |-> <<Playlist1>>]], 0),
     Resp(429, "Retry-After" :> <<"W", "e", "d">>, [error |-> "rate"], 0),
     Resp(500, EmptyDict, [error |-> "server"], 0)}

Track1 ==
    [name |-> <<"s", "1">>,
     artists |-> <<[name |-> <<"x">>], [name |-> <<"y">>]>>,
     preview_url |-> None,
     external_urls |-> [spotify |-> <<"u">>]]

Track2 ==
    [name |-> <<"s", "2">>, artists |-> <<>>, preview_url |-> <<"v">>]

\* Listings whose entries carry a track, a null one, or none.
FewListings ==
    {<<>>,
     <<[track |-> Track1]>>,
     <<[track |-> Null], [track |-> Track2], [added_at |-> <<"d">>], [track |-> Track1]>>}

TracksAnswers ==
    {Resp(200, EmptyDict, [items |-> l], 0) : l \in FewListings}
    \cup {Resp(200, EmptyDict, [total |-> 0], 1)}
    \cup {Resp(st, EmptyDict, [items |-> <<[track |-> Track1]>>], 0) : st \in OtherStatuses}
    \cup RateLimited

FewTracksAnswers ==
    {Resp(200, EmptyDict, [items |-> l], 0) : l \in FewListings}
    \cup {Resp(429, EmptyDict, [error |-> "rate"], 0),
          Resp(404, EmptyDict, [error |-> "gone"], 1)}

PlaylistIds == {<<"p", "1">>}

NoAnswers == {}

\* The answers a request can get: of the token endpoint (tokens), of the
\* search endpoint (searches) or of the tracks endpoint (listings).
AnswersTo(request, tokens, searches, listings) ==
    IF request.method = "POST" THEN tokens
    ELSE IF request.url.template = SPOTIFY_SEARCH_URL THEN searches
    ELSE listings

\* env, extended by each answer to the request of the call Run that it
\* leaves unanswered, if there is one.
Extended(Run(_), env, tokens, searches, listings) ==
    Bind(Run(env), LAMBDA r :
        IF Len(r.http) > Len(env)
        THEN {Append(env, a) :
                a \in AnswersTo(r.http[Len(env) + 1].request, tokens, searches, listings)}
        ELSE {env})

Extend(Run(_), envs, tokens, searches, listings) ==
    UNION {Extended(Run, env, tokens, searches, listings) : env \in envs}

NoEnv == {<<>>}

\* Every sequence of answers to the requests that the call Run sends, for a
\* call that sends at most two (POST, GET),
Envs2(Run(_), tokens, searches, listings) ==
    Extend(Run, Extend(Run, NoEnv, tokens, searches, listings),
           tokens, searches, listings)

\* and for one that sends at most four (POST, GET, POST, GET).
Envs4(Run(_), tokens, searches, listings) ==
    Extend(Run, Extend(Run, Envs2(Run, tokens, searches, listings),
                       tokens, searches, listings),
           tokens, searches, listings)

(***************************************************************************)
(* The state machine.  self is the SpotifySearchTool, clock is time.time(),*)
(* last is the call a caller made and has not yet taken the result of:     *)
(* its arguments, the object and the time when it was entered, and how it  *)
(* ended.                                                                  *)
(***************************************************************************)

Idle ==
    [op |-> "idle", mood |-> None, limit |-> 0, top_n |-> 0, playlist_id |-> None,
     playlists |-> <<>>, pre |-> self, start |-> 0,
     exc |-> "none", msg |-> <<>>, ret |-> NoValue, http |-> <<>>]

Tools ==
    {NewTool(i, c, r, t) : i \in CredValues, c \in CredValues, r \in CredValues,
                           t \in 0..MaxCacheSeconds}

Init ==
    /\ self \in Tools
    /\ clock = 0
    /\ last = [Idle EXCEPT !.pre = self]

\* The world a call is entered in.
Entry == [clock |-> clock, http |-> <<>>]

\* A caller's call of the method op ended as r.
Call(op, mood, limit, top_n, playlist_id, playlists, r) ==
    /\ r.clock <= MaxTime
    /\ self' = r.self
    /\ clock' = r.clock
    /\ last' = [op |-> op, mood |-> mood, limit |-> limit, top_n |-> top_n,
                playlist_id |-> playlist_id, playlists |-> playlists,
                pre |-> self, start |-> clock,
                exc |-> r.exc, msg |-> r.msg, ret |-> r.ret, http |-> r.http]

\* tool.search_playlists(mood, limit)
SearchPlaylists(moods, limits, tokens, searches) ==
    /\ last.op = "idle"
    /\ \E mood \in moods, limit \in limits :
         \E env \in Envs2(LAMBDA e : search_playlists(self, Entry, mood, limit, e),
                          tokens, searches, NoAnswers) :
           \E r \in {search_playlists(self, Entry, mood, limit, env)} :
             Call("search_playlists", mood, limit, 0, None, <<>>, r)

\* tool.get_playlist_top_tracks(playlist_id, top_n)
GetPlaylistTopTracks(ids, top_ns, tokens, listings) ==
    /\ last.op = "idle"
    /\ \E playlist_id \in ids, top_n \in top_ns :
         \E env \in Envs2(LAMBDA e : get_playlist_top_tracks(self, Entry, playlist_id, top_n, e),
                          tokens, NoAnswers, listings) :
           \E r \in {get_playlist_top_tracks(self, Entry, playlist_id, top_n, env)} :
             Call("get_playlist_top_tracks", None, 0, top_n, playlist_id, <<>>, r)

\* tool.search_by_mood(mood, playlists_limit, top_n)
SearchByMood(moods, limits, top_ns, tokens, searches, listings) ==
    /\ last.op = "idle"
    /\ \E mood \in moods, playlists_limit \in limits, top_n \in top_ns :
         \E env \in Envs4(LAMBDA e : search_by_mood(self, Entry, mood, playlists_limit, top_n, e),
                          tokens, searches, listings) :
           \E r \in {search_by_mood(self, Entry, mood, playlists_limit, top_n, env)} :
             Call("search_by_mood", mood, playlists_limit, top_n, None, <<>>, r)

\* tool.choose_best_playlist(playlists, mood): no request, no change of self.
ChooseBestPlaylist(lists, moods) ==
    /\ last.op = "idle"
    /\ \E playlists \in lists, mood \in moods :
         \E r \in {Returned(choose_best_playlist(playlists, mood), self, Entry)} :
           Call("choose_best_playlist", mood, 0, 0, None, playlists, r)

\* The caller takes the result of its call.
Resume ==
    /\ last.op # "idle"
    /\ last' = Idle
    /\ UNCHANGED <<self, clock>>

\* Time passes between two calls.
Tick ==
    /\ last.op = "idle"
    /\ clock < MaxTime
    /\ clock' = clock + 1
    /\ UNCHANGED <<self, last>>

Limits == {10}

TopNs == 0..MaxTopN

FewTopNs == {0, 1, 5}

\* search_by_mood(mood) fetches five tracks unless told otherwise.
MoodTopNs == {1, 5}

FewLists == {<<>>, <<Playlist1, Playlist2>>}

\* Every mood with a few answers and a few moods with every answer, and
\* likewise every top_n and every listing.
Next ==
    \/ SearchPlaylists(Moods, Limits, FewTokenAnswers, FewSearchAnswers)
    \/ SearchPlaylists(FewMoods, Limits, TokenAnswers, SearchAnswers)
    \/ GetPlaylistTopTracks(PlaylistIds, TopNs, FewTokenAnswers, FewTracksAnswers)
    \/ GetPlaylistTopTracks(PlaylistIds, FewTopNs, TokenAnswers, TracksAnswers)
    \/ SearchByMood(FewMoods, Limits, MoodTopNs, FewTokenAnswers, FewSearchAnswers,
                    FewTracksAnswers)
    \/ ChooseBestPlaylist(FewLists, FewMoods)
    \/ Resume
    \/ Tick

Spec == Init /\ [][Next]_vars

(***************************************************************************)
(* choose_best_playlist on its own, over every list of candidates.         *)
(***************************************************************************)

\* Candidates with the mood "hi" in the name, in the description, in both or
\* in neither, with no, few or many followers; two of them as the search
\* endpoint lists them, without a follower count.
Candidates ==
    {[id |-> <<"a">>, name |-> <<"H", "i">>, description |-> <<>>],
     [id |-> <<"b">>, name |-> <<"l", "o">>, description |-> <<"o", "h", "I">>,
      followers |-> [total |-> 50000]],
     [id |-> <<"c">>, name |-> <<"H", "I">>, description |-> <<"h", "i">>,
      followers |-> [total |-> 2000]],
     [id |-> <<"d">>, name |-> <<"l", "o">>, description |-> <<>>,
      followers |-> [total |-> 2999]],
     [id |-> <<"e">>, name |-> <<"h", "i">>, description |-> <<>>,
      followers |-> [total |-> 999]],
     [id |-> <<"f">>, name |-> <<"l", "o">>]}

CandidateLists == SeqsUpTo(Candidates, MaxCandidates)

RankMoods == {<<"h", "i">>, <<"H", "I">>, <<"x">>, <<>>}

InitRank ==
    /\ self = NewTool(<<"i", "d">>, <<"i", "d">>, <<"i", "d">>, MaxCacheSeconds)
    /\ clock = 0
    /\ last = Idle

NextRank ==
    \/ ChooseBestPlaylist(CandidateLists, RankMoods)
    \/ Resume

SpecRank == InitRank /\ [][NextRank]_vars

(***************************************************************************)
(* What the properties below read off a call: its exchanges.               *)
(***************************************************************************)

ApiOps == {"search_playlists", "get_playlist_top_tracks", "search_by_mood"}

SearchOps == {"search_playlists", "search_by_mood"}

SingleCallOps == {"search_playlists", "get_playlist_top_tracks"}

IsPost(x) == x.request.method = "POST"

IsGet(x) == x.request.method = "GET"

IsSearchGet(x) == IsGet(x) /\ x.request.url.template = SPOTIFY_SEARCH_URL

IsTracksGet(x) == IsGet(x) /\ x.request.url.template = SPOTIFY_PLAYLIST_TRACKS_URL

\* The token endpoint granted a token: status 200 and a non-empty access_token.
Granted(x) ==
    /\ IsPost(x)
    /\ x.response.status_code = 200
    /\ "access_token" \in DOMAIN x.response.json
    /\ x.response.json.access_token # None
    /\ x.response.json.access_token # <<>>

\* The mood is None, empty or made of whitespace only.
Blank(mood) == mood = None \/ \A i \in DOMAIN mood : mood[i] \in Whitespace

\* The call went as far as the token manager.
ReachedTokenManager ==
    /\ last.op \in ApiOps
    /\ last.op \in SearchOps => ~Blank(last.mood)

AllCredentials(s) ==
    /\ s.client_id # None /\ s.client_id # <<>>
    /\ s.client_secret # None /\ s.client_secret # <<>>
    /\ s.refresh_token # None /\ s.refresh_token # <<>>

\* A token tok that expires at exp is cached and unexpired at time t.
Unexpired(tok, exp, t) == tok # None /\ tok # <<>> /\ t < exp

RECURSIVE Elapsed(_, _)
\* The time the first n exchanges of h took.
Elapsed(h, n) == IF n = 0 THEN 0 ELSE Elapsed(h, n - 1) + h[n].response.latency

\* The exchanges of h from the k-th on are those of one API call entered with
\* the token tok cached, unexpired or not (fresh): a GET bearing tok alone, or
\* one POST and then, if it granted a token, the GET.
OneCall(h, k, fresh, tok) ==
    /\ Len(h) >= k
    /\ IF fresh
       THEN /\ IsGet(h[k])
            /\ h[k].request.auth.credentials = <<tok>>
       ELSE /\ IsPost(h[k])
            /\ Len(h) > k => IsGet(h[k + 1])
            /\ Len(h) > k => Granted(h[k])

\* C1: with all credentials present, an API call made while a token is cached and
\* now < its expiry sends no token request and its GET bears the cached token;
\* a call made with no token cached or now >= expiry sends exactly one token
\* request, before its GET.  search_by_mood makes two such calls, the second
\* entered when the first one's exchanges are over.
C1_TokenReusedUntilExpiry ==
    (ReachedTokenManager /\ AllCredentials(last.pre)) =>
        LET h == last.http
            fresh1 == Unexpired(last.pre._access_token, last.pre._token_expires_at,
                                last.start)
            n1 == IF fresh1 THEN 1 ELSE 2
            tok2 == IF fresh1 THEN last.pre._access_token
                    ELSE h[1].response.json.access_token
            exp2 == IF fresh1 THEN last.pre._token_expires_at
                    ELSE last.start
                         + Min(Get(h[1].response.json, "expires_in", 3600),
                               last.pre.token_cache_seconds)
            fresh2 == Unexpired(tok2, exp2, last.start + Elapsed(h, n1))
        IN  /\ OneCall(h, 1, fresh1, last.pre._access_token)
            /\ last.op \in SingleCallOps => Len(h) <= n1
            /\ Len(h) > n1 =>
                 /\ OneCall(h, n1 + 1, fresh2, tok2)
                 /\ Len(h) <= n1 + (IF fresh2 THEN 1 ELSE 2)

\* search_by_mood found a cached token for its search and had to refresh it for
\* its track fetch.
C1_Witness ==
    /\ last.op = "search_by_mood"
    /\ Len(last.http) = 3
    /\ IsGet(last.http[1]) /\ IsPost(last.http[2]) /\ IsGet(last.http[3])
    /\ last.http[1].request.auth.credentials = <<last.pre._access_token>>

\* C2: _refresh_access_token raises SpotifyAuthError when a credential is
\* missing, without sending a request; when the token endpoint answers with a
\* status that is no success; and when the answer holds no access_token or an
\* empty one.  The API operation then ends with SpotifyAuthError and sends no
\* GET after it.
C2_RefreshFailuresRaiseAuthError ==
    ReachedTokenManager =>
        /\ ~AllCredentials(last.pre) =>
             last.exc = "SpotifyAuthError" /\ last.http = <<>>
        /\ \A i \in DOMAIN last.http :
             (/\ IsPost(last.http[i])
              /\ \/ last.http[i].response.status_code < 200
                 \/ last.http[i].response.status_code > 299
                 \/ ~Granted(last.http[i])) =>
                 last.exc = "SpotifyAuthError" /\ i = Len(last.http)

\* The track fetch of search_by_mood had to refresh the token and was refused.
C2_Witness ==
    /\ last.op = "search_by_mood"
    /\ last.exc = "SpotifyAuthError"
    /\ Len(last.http) = 3
    /\ IsSearchGet(last.http[2])
    /\ IsPost(last.http[3])

\* The exchanges of the call in which the token endpoint granted a token.
Grants == {i \in DOMAIN last.http : Granted(last.http[i])}

HasGrant == \E i \in DOMAIN last.http : Granted(last.http[i])

LastGrant == CHOOSE i \in Grants : \A j \in Grants : j <= i

\* C3: the cached token and its expiry change only in a successful refresh: a
\* call without one (a refresh that raises, a cache hit, whatever the GET's
\* answer) leaves both as they were, a GET after a successful refresh leaves
\* the refreshed token, and no call changes the credentials.
C3_CacheChangesOnlyOnRefresh ==
    last.op # "idle" =>
        /\ self.client_id = last.pre.client_id
        /\ self.client_secret = last.pre.client_secret
        /\ self.refresh_token = last.pre.refresh_token
        /\ self.token_cache_seconds = last.pre.token_cache_seconds
        /\ ~HasGrant =>
             /\ self._access_token = last.pre._access_token
             /\ self._token_expires_at = last.pre._token_expires_at
        /\ HasGrant =>
             self._access_token = last.http[LastGrant].response.json.access_token

\* A refresh of an expired token was refused, and the expired token is kept.
C3_Witness ==
    /\ last.op \in ApiOps
    /\ last.exc = "SpotifyAuthError"
    /\ Len(last.http) = 1
    /\ last.pre._access_token # None
    /\ self._access_token = last.pre._access_token

\* C4: after a successful refresh the stored expiry is now + min(expires_in,
\* token_cache_seconds), now being the time when the refresh began and
\* expires_in the lifetime the server declared; so it is never later than
\* now + token_cache_seconds nor than now + expires_in.
C4_ExpiryIsCapped ==
    HasGrant =>
        LET now == last.start + Elapsed(last.http, LastGrant - 1)
            json == last.http[LastGrant].response.json
        IN  /\ self._token_expires_at <= now + self.token_cache_seconds
            /\ "expires_in" \in DOMAIN json =>
                 /\ self._token_expires_at <= now + json.expires_in
                 /\ \/ self._token_expires_at = now + json.expires_in
                    \/ self._token_expires_at = now + self.token_cache_seconds

\* A token was granted late, for longer than the cache keeps one.
C4_Witness ==
    /\ HasGrant
    /\ last.http[LastGrant].response.latency > 0
    /\ "expires_in" \in DOMAIN last.http[LastGrant].response.json
    /\ last.http[LastGrant].response.json.expires_in > self.token_cache_seconds
    /\ self.token_cache_seconds > 0

RateLimitExcs == {"SpotifySearchError", "ValueError"}

\* The GETs of the call sent to the search endpoint.
SearchGets == {i \in DOMAIN last.http : IsSearchGet(last.http[i])}

HasSearchGet == \E i \in DOMAIN last.http : IsSearchGet(last.http[i])

HasGet == \E i \in DOMAIN last.http : IsGet(last.http[i])

Playlist == <<" ", "p", "l", "a", "y", "l", "i", "s", "t">>

\* C5: search_playlists and search_by_mood, given a mood that is empty or only
\* whitespace, raise ValueError before any request is sent and leave the token
\* cache alone; given any other mood they issue the search GET with the query
\* "<mood> playlist", the mood as given, unless the token manager raised
\* SpotifyAuthError (C2), in which case no GET is sent.
C5_BlankMoodRejectedBeforeNetwork ==
    last.op \in SearchOps =>
        /\ Blank(last.mood) =>
             /\ last.exc = "ValueError"
             /\ last.http = <<>>
             /\ self = last.pre
        /\ ~Blank(last.mood) =>
             /\ \A i \in SearchGets : last.http[i].request.body.q = last.mood \o Playlist
             /\ \/ HasSearchGet
                \/ last.exc = "SpotifyAuthError" /\ ~HasGet

\* A mood of blanks was rejected while a token was cached, and a mood with a
\* blank before it was searched for as given.
C5_Witness ==
    /\ last.op = "search_playlists"
    /\ last.mood # None /\ last.mood # <<>> /\ Blank(last.mood)
    /\ last.pre._access_token = TokenA
    /\ last.start < last.pre._token_expires_at

C5_WitnessSearched ==
    /\ last.op = "search_playlists"
    /\ last.mood = <<" ", "h">>
    /\ HasSearchGet
    /\ last.exc = "none"

\* The answer to a GET was accepted by _call_spotify: no 429, no status >= 400.
Accepted(x) == IsGet(x) /\ x.response.status_code < 400

\* C6, as stated: search_playlists and get_playlist_top_tracks raise
\* SpotifySearchError whenever the GET's status is not in 200..299, and return
\* a list only when it is.  (The 429 answers, which C7 is about, are left out.)
C6_NonSuccessStatusRaisesSearchError ==
    (last.op \in SingleCallOps /\ HasGet) =>
        LET st == last.http[Len(last.http)].response.status_code
        IN  st # 429 =>
              /\ (st < 200 \/ st > 299) => last.exc = "SpotifySearchError"
              /\ last.exc = "none" => (st >= 200 /\ st <= 299)

\* What the code does instead: the statuses from 400 on raise, the others return.
C6_ErrorStatusRaisesSearchError ==
    (last.op \in SingleCallOps /\ HasGet) =>
        LET st == last.http[Len(last.http)].response.status_code
        IN  st # 429 =>
              /\ st >= 400 => last.exc = "SpotifySearchError"
              /\ st < 400 => last.exc = "none"

\* What str(x) holds for the header value x: the value itself.
RetryAfterSent(x) == Get(x.response.headers, "Retry-After", <<"1">>)

\* C7, as stated: a GET answered with 429 ends the operation with a
\* SpotifySearchError whose message contains the value of the Retry-After
\* header, whatever it is (1 when there is none), and nothing is sent after it.
C7_RateLimitCarriesRetryAfter ==
    \A i \in DOMAIN last.http :
        (IsGet(last.http[i]) /\ last.http[i].response.status_code = 429) =>
            /\ last.exc = "SpotifySearchError"
            /\ Contains(last.msg, RetryAfterSent(last.http[i]))
            /\ i = Len(last.http)

\* What the code does: the claim holds of the header values that int() reads
\* and str() writes back unchanged, and nothing is ever sent after a 429.
C7_HoldsForPlainSeconds ==
    \A i \in DOMAIN last.http :
        (IsGet(last.http[i]) /\ last.http[i].response.status_code = 429) =>
            /\ i = Len(last.http)
            /\ last.exc \in RateLimitExcs
            /\ (\A k \in DOMAIN RetryAfterSent(last.http[i]) :
                    IsDigit(RetryAfterSent(last.http[i])[k])
                    /\ (k = 1 => RetryAfterSent(last.http[i])[k] # "0")) =>
                 /\ last.exc = "SpotifySearchError"
                 /\ Contains(last.msg, RetryAfterSent(last.http[i]))

\* The score the heuristic gives playlist p for a mood: 50 for the mood in the
\* name, 30 for the mood in the description, a point per 1000 followers up to 20.
ExpectedScore(p, mood) ==
    LET name == IF "name" \in DOMAIN p THEN Lower(p.name) ELSE <<>>
        desc == IF "description" \in DOMAIN p THEN Lower(p.description) ELSE <<>>
        followers == IF "followers" \in DOMAIN p THEN p.followers.total ELSE 0
        thousands == followers \div 1000
    IN  (IF Contains(name, Lower(mood)) THEN 50 ELSE 0)
        + (IF Contains(desc, Lower(mood)) THEN 30 ELSE 0)
        + (IF thousands < 20 THEN thousands ELSE 20)

\* The first of the playlists whose score is the greatest.
FirstBest(playlists, mood) ==
    CHOOSE i \in DOMAIN playlists :
        /\ \A j \in DOMAIN playlists :
             ExpectedScore(playlists[j], mood) <= ExpectedScore(playlists[i], mood)
        /\ \A j \in 1..(i - 1) :
             ExpectedScore(playlists[j], mood) < ExpectedScore(playlists[i], mood)

\* C8: choose_best_playlist returns, of a non-empty list, the candidate whose
\* score is the greatest and, of those that share the greatest score, the first
\* in the list; it returns None only of the empty list.
C8_FirstBestPlaylistChosen ==
    last.op = "choose_best_playlist" =>
        /\ last.exc = "none"
        /\ Len(last.playlists) = 0 => last.ret = Null
        /\ Len(last.playlists) > 0 =>
             /\ last.ret # Null
             /\ last.ret = last.playlists[FirstBest(last.playlists, last.mood)]

\* Two different candidates share the greatest score, 50, which the mood in
\* upper case earned them, a candidate with a smaller score comes before them,
\* and the first of the two is returned.
C8_Witness ==
    /\ last.op = "choose_best_playlist"
    /\ Len(last.playlists) = 3
    /\ last.mood = <<"H", "I">>
    /\ ExpectedScore(last.playlists[1], last.mood) < 50
    /\ ExpectedScore(last.playlists[2], last.mood) = 50
    /\ ExpectedScore(last.playlists[3], last.mood) = 50
    /\ last.playlists[2] # last.playlists[3]
    /\ last.ret = last.playlists[2]

HasTrack(entry) == "track" \in DOMAIN entry /\ entry.track # Null

\* The entries of the listing that the tracks endpoint returned to the call
\* which carry a track.
ListedTracks ==
    SelectSeq(Get(last.http[Len(last.http)].response.json, "items", <<>>), HasTrack)

\* C9, as stated: get_playlist_top_tracks returns, for every top_n >= 0, the
\* first min(top_n, k) of the k listed entries that carry a track, in the
\* order of the listing, and so never more than top_n tracks.
C9_FirstTopNTracksReturned ==
    (last.op = "get_playlist_top_tracks" /\ last.exc = "none" /\ last.top_n >= 0) =>
        /\ Len(last.ret) = Min(last.top_n, Len(ListedTracks))
        /\ \A i \in DOMAIN last.ret :
             /\ i <= Len(ListedTracks)
             /\ last.ret[i].name = ListedTracks[i].track.name

\* What the code does: the claim holds of every top_n >= 1, and of top_n = 0
\* the first track is returned if there is one.
C9_HoldsFromOneTrackOn ==
    (last.op = "get_playlist_top_tracks" /\ last.exc = "none") =>
        /\ Len(last.ret) = Min(Max(last.top_n, 1), Len(ListedTracks))
        /\ \A i \in DOMAIN last.ret : last.ret[i].name = ListedTracks[i].track.name

\* The playlists a search answer holds, the nulls left out.
Found(x) ==
    SelectSeq(Get(Get(x.response.json, "playlists", EmptyDict), "items", <<>>), IsNotNone)

\* The exchange x made the operation that sent it raise: a refused token
\* request, a GET answered with a status from 400 on, or a search that found
\* no playlist.
Failed(x) ==
    \/ IsPost(x) /\ ~Granted(x)
    \/ IsGet(x) /\ ~Accepted(x)
    \/ IsSearchGet(x) /\ Accepted(x) /\ Len(Found(x)) = 0

TracksGets == {i \in DOMAIN last.http : IsTracksGet(last.http[i])}

\* C10: search_by_mood searches, chooses the best of the playlists found and
\* fetches that playlist's tracks, in this order; it returns {playlist, tracks}
\* only after a search and a track fetch that both succeeded; a token refresh,
\* a search GET or a tracks GET that fails, or a search that finds nothing,
\* ends it with that error, without a result and without a further request
\* (none is sent twice, and no tracks are fetched after a failed search).
C10_SearchThenChooseThenFetch ==
    (last.op = "search_by_mood" /\ ~Blank(last.mood)) =>
        LET h == last.http
            n == Len(h)
        IN  /\ \A i \in TracksGets :
                 /\ i > 1
                 /\ \E j \in 1..(i - 1) :
                      /\ IsSearchGet(h[j]) /\ ~Failed(h[j])
                      /\ h[i].request.url.playlist_id
                            = Get(Found(h[j])[FirstBest(Found(h[j]), last.mood)], "id", None)
            /\ Cardinality(SearchGets) <= 1
            /\ Cardinality(TracksGets) <= 1
            /\ \A i \in DOMAIN h : Failed(h[i]) => (i = n /\ last.exc # "none")
            /\ (n > 0 /\ IsPost(h[n])) => last.exc = "SpotifyAuthError"
            /\ (n > 0 /\ Failed(h[n]) /\ IsGet(h[n]) /\ h[n].response.status_code # 429) =>
                 last.exc = "SpotifySearchError"
            /\ last.exc = "none" <=> (n > 0 /\ IsTracksGet(h[n]) /\ ~Failed(h[n]))
            /\ last.exc = "none" =>
                 /\ last.ret.playlist.id = h[n].request.url.playlist_id
                 /\ Len(last.ret.tracks) <= Max(last.top_n, 1)
            /\ last.exc # "none" => last.ret = NoValue

\* Playlists were found, the second of them was chosen, and the fetch of its
\* tracks failed.
C10_Witness ==
    /\ last.op = "search_by_mood"
    /\ last.exc = "SpotifySearchError"
    /\ Len(last.http) >= 2
    /\ IsTracksGet(last.http[Len(last.http)])
    /\ last.http[Len(last.http)].request.url.playlist_id = <<"p", "2">>
    /\ last.ret = NoValue

====
